---- MODULE Spec2Model ----
(***************************************************************************)
(* Model of the client-side request queue and cache layer of Niro:         *)
(*   VideoQueueManager   src/src/lib/video-queue.ts                        *)
(*   CacheManager        src/unnamed/part_005  (lib/cache-manager)         *)
(* Each manager has its own specifications (SpecQueue, SpecOrder,          *)
(* SpecQueueFault; SpecCache, SpecLru; SpecKey); the variables of the      *)
(* other components stay put.                                              *)
(***************************************************************************)
EXTENDS Integers, Sequences, FiniteSets, TLC

(***************************************************************************)
(* Bounds of the model.                                                    *)
(***************************************************************************)
\* number of add() calls explored (ids are 1..MaxItems in arrival order)
MaxItems == 4
\* number of calls other than add() explored in one run of a manager
MaxCalls == 2
\* last value of the millisecond clock that Tick reaches
MaxTime == 2
\* number of CacheManager calls explored with arbitrary payloads and ttl
MaxCacheCalls == 4
\* number of CacheManager calls explored with equal-sized payloads
MaxLruCalls == 5
\* longest prompt given to generateKey
MaxLen == 2
\* number of set calls that may be suspended at the same time
MaxPending == 2
\* calls made while the queue is worked off
MaxDrain == 3
\* number of recordProcessingTime calls explored with requests being optimized
MaxPerfCalls == 3
\* number of subscribe calls explored
MaxSubs == 3
\* number of times one unsubscribe function is called
MaxUses == 2

VARIABLES
    \* ---- VideoQueueManager ----
    obj,         \* the QueueItem objects of the current instance, by id
    queue,       \* this.queue: ids in stored order
    processing,  \* this.processing: the keys of the Map, in insertion order
    stored,      \* localStorage['niro_video_queue']
    nextId,      \* the id the next add() generates
    now,         \* Date.now()
    result,      \* outcome of the call just made: return value, throw, notifications
    calls,       \* number of calls other than add() made so far
    addPhase,    \* history: every call since construction on empty storage was
                 \* add() or a progress report that names no status
    admitLog     \* history: ids admitted by processNext while addPhase holds

qvars == <<obj, queue, processing, stored, nextId, now, result, calls, addPhase, admitLog>>

VARIABLES
    \* ---- CacheManager ----
    cache,       \* this.cache: the entries of the Map, in insertion order
    stats,       \* this.stats: { hits, misses }
    cacheStored, \* localStorage['niro_cache'] and ['niro_cache_stats']
    cres,        \* outcome of the cache call just made
    ccalls,      \* number of CacheManager calls made so far
    lruStep      \* history: progress through set A, set B, set C, get A, set D

cvars == <<cache, stats, cacheStored, cres, ccalls, lruStep>>

VARIABLES
    \* ---- CacheManager.generateKey ----
    keyIn,       \* two prompts and an options object
    keyOut       \* the outcomes of generateKey for the two prompts

kvars == <<keyIn, keyOut>>

VARIABLES
    \* ---- CacheManager.set called without awaiting the previous call ----
    pending,     \* the entries of the set calls suspended at `await this.evictLRU`,
                 \* in the order their continuations were queued
    seqCache     \* history: this.cache had every set call run to its end before
                 \* the next one started

avars == <<pending, seqCache>>

VARIABLES
    \* ---- VideoQueueManager: listeners ----
    listeners,   \* this.listeners: the callbacks, in the order of the array
    handles,     \* the functions returned by subscribe, in the order of the
                 \* subscribe calls: the callback each closes over and the
                 \* number of times it has been called
    lastNotify   \* history: the last notifyListeners() run

lvars == <<listeners, handles, lastNotify>>

VARIABLES
    \* ---- PerformanceOptimizer and the caller of optimizeParameters ----
    metrics,         \* this.metrics
    settings,        \* this.settings
    processingTimes, \* this.processingTimes, in seconds
    perfStored,      \* localStorage: metrics, processing times and settings
    request,         \* the caller's request object (its own fields)
    reqOptions,      \* the object request.options refers to
    optimized,       \* outcome of the last optimizeParameters call
    batch,           \* outcome of the last getOptimalBatchSize call
    recorded,        \* the arguments of the last recordProcessingTime call
    allTimes,        \* history: every duration recorded so far, in arrival order
    pcalls           \* number of recordProcessingTime calls made so far

pvars == <<metrics, settings, processingTimes, perfStored, request, reqOptions,
           optimized, batch, recorded, allTimes, pcalls>>

vars == <<qvars, cvars, kvars, avars, lvars, pvars>>

CacheIdle == UNCHANGED <<cvars, kvars, avars, lvars, pvars>>

(***************************************************************************)
(* Helpers over sequences.                                                 *)
(***************************************************************************)
Range(s) == {s[i] : i \in 1..Len(s)}

InsertAt(s, k, x) == SubSeq(s, 1, k - 1) \o <<x>> \o SubSeq(s, k, Len(s))

RECURSIVE Without(_, _)
Without(s, x) ==
    IF s = <<>> THEN <<>>
    ELSE IF Head(s) = x THEN Without(Tail(s), x)
    ELSE <<Head(s)>> \o Without(Tail(s), x)

(***************************************************************************)
(* VideoQueueManager: types.                                               *)
(***************************************************************************)
Ids == 1..MaxItems
Priorities == {"low", "normal", "high"}
Statuses == {"queued", "processing", "completed", "failed"}
Terminal == {"completed", "failed"}
\* the status argument left out (undefined)
NoStatus == "none"
\* values a caller passes as progress
ProgressVals == {0, 100}
\* startedAt / completedAt not set (undefined)
Unset == -1

maxConcurrent == 3

\* const priorityOrder = { high: 0, normal: 1, low: 2 }
priorityOrder(p) == CASE p = "high" -> 0 [] p = "normal" -> 1 [] p = "low" -> 2

\* localStorage.setItem('niro_video_queue', JSON.stringify(this.queue)):
\* the items of this.queue, field by field, in stored order; the Map of
\* processing items is not written.
Serialize(o, q) ==
    [saved |-> TRUE,
     items |-> [k \in 1..Len(q) |->
                  [id |-> o[q[k]].id, priority |-> o[q[k]].priority,
                   status |-> o[q[k]].status, progress |-> o[q[k]].progress,
                   startedAt |-> o[q[k]].startedAt,
                   completedAt |-> o[q[k]].completedAt]]]

\* getAll(): [...this.queue, ...this.processing.values()], as ids
getAll(q, p) == q \o p

\* this.queue.findIndex(item => item.id === id), 0 for -1
IndexOf_orLast(q, id) ==
    IF id \in Range(q) THEN CHOOSE k \in 1..Len(q) : q[k] = id /\ \A j \in 1..(k - 1) : q[j] # id
    ELSE Len(q)

IndexOf(q, id) ==
    IF id \in Range(q) THEN CHOOSE k \in 1..Len(q) : q[k] = id /\ \A j \in 1..(k - 1) : q[j] # id
    ELSE 0

\* Map.set(id, item): a key already present keeps its place
MapSet(p, id) == IF id \in Range(p) THEN p ELSE Append(p, id)

\* Map.delete(id)
MapDelete(p, id) == Without(p, id)

\* findInsertIndex: the first position holding an item of strictly lower
\* priority (greater rank), else the end of the list (1-based)
findInsertIndex_ties(o, q, priority) ==
    LET later == {k \in 1..Len(q) : priorityOrder(o[q[k]].priority) >= priorityOrder(priority)}
    IN  IF later = {} THEN Len(q) + 1
        ELSE CHOOSE k \in later : \A j \in later : k <= j

findInsertIndex(o, q, priority) ==
    LET later == {k \in 1..Len(q) : priorityOrder(o[q[k]].priority) > priorityOrder(priority)}
    IN  IF later = {} THEN Len(q) + 1
        ELSE CHOOSE k \in later : \A j \in later : k <= j

\* this.queue.find(item => item.status === 'queued'): its id, 0 if none
FirstQueued_last(o, q) ==
    LET cand == {k \in 1..Len(q) : o[q[k]].status = "queued"}
    IN  IF cand = {} THEN 0
        ELSE q[CHOOSE k \in cand : \A j \in cand : k >= j]

FirstQueued(o, q) ==
    LET cand == {k \in 1..Len(q) : o[q[k]].status = "queued"}
    IN  IF cand = {} THEN 0
        ELSE q[CHOOSE k \in cand : \A j \in cand : k <= j]

\* processNext(): the objects and the Map after the call, the id admitted
\* (0 if none) and the number of notifyListeners() calls made
processNext_over(o, q, p) ==
    IF Len(p) > maxConcurrent \/ FirstQueued(o, q) = 0
    THEN [obj |-> o, processing |-> p, admitted |-> 0, notified |-> 0]
    ELSE LET n == FirstQueued(o, q)
         IN  [obj |-> [o EXCEPT ![n].status = "processing"],
              processing |-> MapSet(p, n), admitted |-> n, notified |-> 1]

processNext(o, q, p) ==
    IF Len(p) >= maxConcurrent \/ FirstQueued(o, q) = 0
    THEN [obj |-> o, processing |-> p, admitted |-> 0, notified |-> 0]
    ELSE LET n == FirstQueued(o, q)
         IN  [obj |-> [o EXCEPT ![n].status = "processing"],
              processing |-> MapSet(p, n), admitted |-> n, notified |-> 1]

\* getStatus().processing and getStatus().queued
StatusProcessing == Len(processing)
StatusQueued == Cardinality({k \in 1..Len(queue) : obj[queue[k]].status = "queued"})

\* what the caller and the listeners see of one call: the value returned
\* ("void", "true", "false", or "id" for the id just generated), whether the
\* call threw, and how many times notifyListeners() ran
Outcome(ret, threw, notified) == [ret |-> ret, threw |-> threw, notified |-> notified]

(***************************************************************************)
(* VideoQueueManager: operations.  ok says whether the localStorage write  *)
(* of saveQueue() succeeds; setItem throws otherwise and nothing catches   *)
(* it, so the rest of the method is skipped.                               *)
(***************************************************************************)
InitQueue ==
    /\ obj = <<>>
    /\ queue = <<>>
    /\ processing = <<>>
    /\ stored = [saved |-> FALSE, items |-> <<>>]
    /\ nextId = 1
    /\ now = 0
    /\ result = Outcome("void", FALSE, 0)
    /\ calls = 0
    /\ addPhase = TRUE
    /\ admitLog = <<>>

QueueIdle == UNCHANGED <<obj, queue, processing, stored, nextId, result, calls, addPhase, admitLog>>

Add(priority, ok) ==
    /\ CacheIdle
    /\ nextId <= MaxItems
    /\ LET id == nextId
           item == [id |-> id, priority |-> priority, status |-> "queued",
                    progress |-> 0, startedAt |-> Unset, completedAt |-> Unset]
           o1 == [i \in DOMAIN obj \cup {id} |-> IF i = id THEN item ELSE obj[i]]
           q1 == InsertAt(queue, findInsertIndex(obj, queue, priority), id)
           pn == processNext(o1, q1, processing)
       IN  /\ nextId' = nextId + 1
           /\ queue' = q1
           /\ IF ok
              THEN /\ stored' = Serialize(o1, q1)
                   /\ obj' = pn.obj
                   /\ processing' = pn.processing
                   /\ result' = Outcome("id", FALSE, 1 + pn.notified)
                   /\ addPhase' = addPhase
                   /\ admitLog' = IF addPhase /\ pn.admitted # 0
                                  THEN Append(admitLog, pn.admitted) ELSE admitLog
              ELSE /\ stored' = stored
                   /\ obj' = o1
                   /\ processing' = processing
                   /\ result' = Outcome("void", TRUE, 0)
                   /\ addPhase' = FALSE
                   /\ admitLog' = <<>>
    /\ UNCHANGED <<now, calls>>

RemoveWithin(id, ok, budget) ==
    /\ CacheIdle
    /\ calls < budget
    /\ calls' = calls + 1
    /\ IF IndexOf(queue, id) = 0
       THEN /\ result' = Outcome("false", FALSE, 0)
            /\ UNCHANGED <<obj, queue, processing, stored>>
       ELSE LET q1 == Without(queue, id)
                o1 == [i \in DOMAIN obj \ {id} |-> obj[i]]
            IN  /\ queue' = q1
                /\ obj' = o1
                /\ processing' = MapDelete(processing, id)
                /\ IF ok
                   THEN /\ stored' = Serialize(o1, q1)
                        /\ result' = Outcome("true", FALSE, 1)
                   ELSE /\ stored' = stored
                        /\ result' = Outcome("void", TRUE, 0)
    /\ addPhase' = FALSE
    /\ admitLog' = <<>>
    /\ UNCHANGED <<nextId, now>>

Remove(id, ok) == RemoveWithin(id, ok, MaxCalls)

UpdateProgress(id, progress, status, ok) ==
    /\ CacheIdle
    /\ calls < MaxCalls
    /\ calls' = calls + 1
    /\ IF id \notin Range(queue) /\ id \notin Range(processing)
       THEN /\ result' = Outcome("void", FALSE, 0)
            /\ UNCHANGED <<obj, processing, stored>>
       ELSE LET o1 == [obj EXCEPT ![id].progress = progress,
                                  ![id].status = IF status # NoStatus THEN status ELSE @]
                o2 == IF status = "processing" /\ o1[id].startedAt = Unset
                      THEN [o1 EXCEPT ![id].startedAt = now] ELSE o1
                o3 == IF status \in Terminal
                      THEN [o2 EXCEPT ![id].completedAt = now] ELSE o2
                pn == IF status \in Terminal
                      THEN processNext(o3, queue, MapDelete(processing, id))
                      ELSE [obj |-> o3, processing |-> processing, admitted |-> 0,
                            notified |-> 0]
            IN  /\ obj' = pn.obj
                /\ processing' = pn.processing
                /\ IF ok
                   THEN /\ stored' = Serialize(pn.obj, queue)
                        /\ result' = Outcome("void", FALSE, pn.notified + 1)
                   ELSE /\ stored' = stored
                        /\ result' = Outcome("void", TRUE, pn.notified)
    /\ addPhase' = (addPhase /\ status = NoStatus /\ ok)
    /\ admitLog' = IF addPhase /\ status = NoStatus /\ ok THEN admitLog ELSE <<>>
    /\ UNCHANGED <<queue, nextId, now>>

ClearCompleted(ok) ==
    /\ CacheIdle
    /\ calls < MaxCalls
    /\ calls' = calls + 1
    /\ LET keep == {i \in Range(queue) : obj[i].status \notin Terminal}
           q1 == SelectSeq(queue, LAMBDA i : i \in keep)
           \* dropped items stay reachable only through the Map
           o1 == [i \in keep \cup Range(processing) |-> obj[i]]
       IN  /\ queue' = q1
           /\ obj' = o1
           /\ IF ok
              THEN /\ stored' = Serialize(o1, q1)
                   /\ result' = Outcome("void", FALSE, 1)
              ELSE /\ stored' = stored
                   /\ result' = Outcome("void", TRUE, 0)
    /\ addPhase' = FALSE
    /\ admitLog' = <<>>
    /\ UNCHANGED <<processing, nextId, now>>

\* new VideoQueueManager() on a page that already has storage: loadQueue()
\* rebuilds this.queue from the stored items; the Map starts empty.
\* readable = FALSE: getItem/JSON.parse throws and the catch leaves [].
Reload(readable) ==
    /\ CacheIdle
    /\ calls < MaxCalls
    /\ calls' = calls + 1
    /\ LET items == IF readable /\ stored.saved THEN stored.items ELSE <<>>
       IN  /\ queue' = [k \in 1..Len(items) |-> items[k].id]
           /\ obj' = [i \in {items[k].id : k \in 1..Len(items)} |->
                        LET k == CHOOSE k \in 1..Len(items) : items[k].id = i
                        IN  items[k]]
    /\ processing' = <<>>
    /\ result' = Outcome("void", FALSE, 0)
    /\ addPhase' = FALSE
    /\ admitLog' = <<>>
    /\ UNCHANGED <<stored, nextId, now>>

Tick ==
    /\ now < MaxTime
    /\ now' = now + 1
    /\ QueueIdle
    /\ CacheIdle

StatusArgs == Statuses \cup {NoStatus}

(***************************************************************************)
(* VideoQueueManager: listeners.  A callback is a function object; one     *)
(* that is in Leavers calls the unsubscribe function of its own            *)
(* subscription whenever it is notified.                                   *)
(***************************************************************************)
Callbacks == {"f", "g", "h"}

\* this.listeners.indexOf(callback), 0 for -1
indexOf(ls, cb) ==
    IF cb \in Range(ls) THEN CHOOSE k \in 1..Len(ls) : ls[k] = cb /\ \A j \in 1..(k - 1) : ls[j] # cb
    ELSE 0

\* the function subscribe returns:
\* index = indexOf(callback); if (index > -1) splice(index, 1)
unsubscribe(ls, cb) ==
    IF indexOf(ls, cb) > 0
    THEN SubSeq(ls, 1, indexOf(ls, cb) - 1) \o SubSeq(ls, indexOf(ls, cb) + 1, Len(ls))
    ELSE ls

\* Array.prototype.forEach: the length is read once, the indices are visited
\* in ascending order and an index the array no longer has is passed over.
\* k is the index to visit, ls the array as the callbacks have left it.
RECURSIVE forEach(_, _, _, _, _, _)
forEach(k, len, ls, called, left, leavers) ==
    IF k > len THEN [listeners |-> ls, called |-> called, left |-> left]
    ELSE IF k > Len(ls) THEN forEach(k + 1, len, ls, called, left, leavers)
    ELSE IF ls[k] \in leavers
    THEN forEach(k + 1, len, unsubscribe(ls, ls[k]), Append(called, ls[k]),
                 left \cup {ls[k]}, leavers)
    ELSE forEach(k + 1, len, ls, Append(called, ls[k]), left, leavers)

InitListeners ==
    /\ listeners = <<>>
    /\ handles = <<>>
    /\ lastNotify = [snapshot |-> <<>>, called |-> <<>>, left |-> {}]

ListenerFrame == QueueIdle /\ UNCHANGED <<now, cvars, kvars, avars, pvars>>

Subscribe(cb) ==
    /\ Len(handles) < MaxSubs
    /\ listeners' = Append(listeners, cb)
    /\ handles' = Append(handles, [callback |-> cb, uses |-> 0])
    /\ UNCHANGED lastNotify
    /\ ListenerFrame

\* a call of the h-th function returned by subscribe
Unsubscribe(h) ==
    /\ h \in 1..Len(handles)
    /\ handles[h].uses < MaxUses
    /\ listeners' = unsubscribe(listeners, handles[h].callback)
    /\ handles' = [handles EXCEPT ![h].uses = @ + 1]
    /\ UNCHANGED lastNotify
    /\ ListenerFrame

\* notifyListeners(), run by add, remove, updateProgress, clearCompleted and
\* processNext
Notify(leavers) ==
    /\ LET run == forEach(1, Len(listeners), listeners, <<>>, {}, leavers)
       IN  /\ listeners' = run.listeners
           /\ lastNotify' = [snapshot |-> listeners, called |-> run.called, left |-> run.left]
    /\ UNCHANGED handles
    /\ ListenerFrame

NextListeners ==
    \/ \E cb \in Callbacks : Subscribe(cb)
    \/ \E h \in 1..MaxSubs : Unsubscribe(h)
    \/ \E leavers \in SUBSET Callbacks : Notify(leavers)

(***************************************************************************)
(* CacheManager.  Every operation runs to completion before the next call  *)
(* is made; budget is the number of calls the specification explores.      *)
(***************************************************************************)
Keys == {"A", "B", "C", "D"}

maxSize == 100 * 1024 * 1024
defaultTTL == 24 * 60 * 60 * 1000

MiB == 1024 * 1024
\* a payload: its value and the length of JSON.stringify(data)
Payload(v, len) == [v |-> v, len |-> len]
\* payloads whose estimated sizes are 60 MiB and 120 MiB (over the budget)
Data60 == Payload(1, 30 * MiB)
DataBig == Payload(2, 60 * MiB)
\* a payload of estimated size 30 MiB: three fit, a fourth does not
Data30 == Payload(3, 15 * MiB)
\* what get() returns for null
NullData == Payload(0, 0)

\* the ttl argument left out (undefined)
NoTTL == -1
ShortTTL == 1
TTLs == {NoTTL, 0, ShortTTL}

\* calculateSize: JSON.stringify(data).length * 2
calculateSize(data) == data.len * 2

RECURSIVE SumSizes(_)
SumSizes(c) == IF c = <<>> THEN 0 ELSE Head(c).size + SumSizes(Tail(c))

\* getCurrentSize
getCurrentSize(c) == SumSizes(c)

HasKey(c, k) == \E i \in 1..Len(c) : c[i].key = k
EntryOf(c, k) == c[CHOOSE i \in 1..Len(c) : c[i].key = k]

\* Map.set(key, entry): a key already present keeps its place in the order
CachePut(c, e) ==
    IF HasKey(c, e.key) THEN [i \in 1..Len(c) |-> IF c[i].key = e.key THEN e ELSE c[i]]
    ELSE Append(c, e)

\* Map.delete(key)
CacheDelete(c, k) == SelectSeq(c, LAMBDA e : e.key # k)

\* Array.prototype.sort((a, b) => a.lastAccessed - b.lastAccessed): a stable
\* sort, entries of equal lastAccessed keep the Map's insertion order
RECURSIVE InsertSorted(_, _)
InsertSorted(sorted, e) ==
    IF sorted = <<>> THEN <<e>>
    ELSE IF e.lastAccessed < Head(sorted).lastAccessed THEN <<e>> \o sorted
    ELSE <<Head(sorted)>> \o InsertSorted(Tail(sorted), e)

RECURSIVE SortByLastAccessed(_)
SortByLastAccessed(c) ==
    IF c = <<>> THEN <<>>
    ELSE InsertSorted(SortByLastAccessed(SubSeq(c, 1, Len(c) - 1)), c[Len(c)])

\* the loop of evictLRU over the sorted entries
RECURSIVE EvictLoop(_, _, _, _)
EvictLoop(entries, c, freedSpace, requiredSpace) ==
    IF entries = <<>> \/ freedSpace >= requiredSpace THEN c
    ELSE EvictLoop(Tail(entries), CacheDelete(c, Head(entries).key),
                   freedSpace + Head(entries).size, requiredSpace)

evictLRU(c, requiredSpace) == EvictLoop(SortByLastAccessed(c), c, 0, requiredSpace)

\* Date.now() > entry.expiresAt
Expired_atBoundary(t, e) == t >= e.expiresAt

Expired(t, e) == t > e.expiresAt

\* saveCache(): both items written; a failing write is caught and logged
SaveCache(c, st) == [saved |-> TRUE, entries |-> c, stats |-> st]

CacheOutcome(op, found, data, case) == [op |-> op, found |-> found, data |-> data, case |-> case]

\* the monitor of the scenario set A, set B, set C, get A (a hit), set D
LruOff == -1
LruAdvance(op, k) ==
    IF \/ lruStep = 0 /\ op = "set" /\ k = "A"
       \/ lruStep = 1 /\ op = "set" /\ k = "B"
       \/ lruStep = 2 /\ op = "set" /\ k = "C"
       \/ lruStep = 3 /\ op = "hit" /\ k = "A"
       \/ lruStep = 4 /\ op = "set" /\ k = "D"
    THEN lruStep + 1 ELSE LruOff

InitCache ==
    /\ cache = <<>>
    /\ stats = [hits |-> 0, misses |-> 0]
    /\ cacheStored = [saved |-> FALSE, entries |-> <<>>, stats |-> [hits |-> 0, misses |-> 0]]
    /\ cres = CacheOutcome("new", FALSE, NullData, "none")
    /\ ccalls = 0
    /\ lruStep = 0
    /\ pending = <<>>
    /\ seqCache = <<>>

Set(key, data, ttl, budget) ==
    /\ ccalls < budget
    /\ LET entry == [key |-> key, data |-> data, timestamp |-> now,
                     expiresAt |-> now + (IF ttl = NoTTL \/ ttl = 0 THEN defaultTTL ELSE ttl),
                     size |-> calculateSize(data), hits |-> 0, lastAccessed |-> now]
           c1 == IF getCurrentSize(cache) + entry.size > maxSize
                 THEN evictLRU(cache, entry.size) ELSE cache
       IN  /\ cache' = CachePut(c1, entry)
           /\ cacheStored' = SaveCache(cache', stats)
    /\ cres' = CacheOutcome("set", TRUE, NullData, "none")
    /\ lruStep' = LruAdvance("set", key)
    /\ ccalls' = ccalls + 1
    /\ UNCHANGED <<stats, now>>
    /\ QueueIdle
    /\ UNCHANGED <<kvars, avars, lvars, pvars>>

Get(key, budget) ==
    /\ ccalls < budget
    /\ IF ~HasKey(cache, key)
       THEN /\ stats' = [stats EXCEPT !.misses = @ + 1]
            /\ cres' = CacheOutcome("get", FALSE, NullData, "absent")
            /\ lruStep' = LruAdvance("miss", key)
            /\ UNCHANGED cache
       ELSE IF Expired(now, EntryOf(cache, key))
       THEN /\ cache' = CacheDelete(cache, key)
            /\ stats' = [stats EXCEPT !.misses = @ + 1]
            /\ cres' = CacheOutcome("get", FALSE, NullData, "expired")
            /\ lruStep' = LruAdvance("miss", key)
       ELSE /\ cache' = CachePut(cache, [EntryOf(cache, key) EXCEPT
                                           !.hits = @ + 1, !.lastAccessed = now])
            /\ stats' = [stats EXCEPT !.hits = @ + 1]
            /\ cres' = CacheOutcome("get", TRUE, EntryOf(cache, key).data, "hit")
            /\ lruStep' = LruAdvance("hit", key)
    /\ ccalls' = ccalls + 1
    /\ UNCHANGED <<cacheStored, now>>
    /\ QueueIdle
    /\ UNCHANGED <<kvars, avars, lvars, pvars>>

Delete(key, budget) ==
    /\ ccalls < budget
    /\ cache' = CacheDelete(cache, key)
    /\ cacheStored' = IF HasKey(cache, key) THEN SaveCache(cache', stats) ELSE cacheStored
    /\ cres' = CacheOutcome("delete", HasKey(cache, key), NullData, "none")
    /\ lruStep' = LruOff
    /\ ccalls' = ccalls + 1
    /\ UNCHANGED <<stats, now>>
    /\ QueueIdle
    /\ UNCHANGED <<kvars, avars, lvars, pvars>>

Clear(budget) ==
    /\ ccalls < budget
    /\ cache' = <<>>
    /\ stats' = [hits |-> 0, misses |-> 0]
    /\ cacheStored' = [saved |-> FALSE, entries |-> <<>>, stats |-> [hits |-> 0, misses |-> 0]]
    /\ cres' = CacheOutcome("clear", FALSE, NullData, "none")
    /\ lruStep' = LruOff
    /\ ccalls' = ccalls + 1
    /\ UNCHANGED now
    /\ QueueIdle
    /\ UNCHANGED <<kvars, avars, lvars, pvars>>

\* cleanup(), the sweep the constructor schedules with setInterval
Cleanup(budget) ==
    /\ ccalls < budget
    /\ cache' = SelectSeq(cache, LAMBDA e : ~(now > e.expiresAt))
    /\ cacheStored' = IF cache' # cache THEN SaveCache(cache', stats) ELSE cacheStored
    /\ cres' = CacheOutcome("cleanup", FALSE, NullData, "none")
    /\ lruStep' = LruOff
    /\ ccalls' = ccalls + 1
    /\ UNCHANGED <<stats, now>>
    /\ QueueIdle
    /\ UNCHANGED <<kvars, avars, lvars, pvars>>

(***************************************************************************)
(* CacheManager.getStats.  hitRate is computed in IEEE 754 double          *)
(* arithmetic: the quotient hits / totalRequests is rounded to 53          *)
(* significant bits, the product with 100 is rounded again, and Math.round *)
(* is applied to that.  A double is a record [bits, exp]: the significant  *)
(* bits, most significant first, and the number of them that lie behind    *)
(* the binary point.                                                       *)
(***************************************************************************)
Significand == 53

\* 2^n modulo t, by repeated squaring
RECURSIVE PowerOfTwoMod(_, _)
PowerOfTwoMod(n, t) ==
    IF n = 0 THEN 1 % t
    ELSE LET half == PowerOfTwoMod(n \div 2, t)
         IN  (half * half * (IF n % 2 = 1 THEN 2 ELSE 1)) % t

\* what is left of r after n bits of r / t behind the binary point
Remainder(r, t, n) == (r * PowerOfTwoMod(n, t)) % t

\* the first n bits behind the binary point of r / t, for 0 <= r < t
Expand(r, t, n) == [i \in 1..n |-> (2 * Remainder(r, t, i - 1)) \div t]

\* the number of zero bits behind the point before the first one, 0 < r < t
RECURSIVE LeadingZeros(_, _)
LeadingZeros(r, t) == IF 2 * r >= t THEN 0 ELSE 1 + LeadingZeros(2 * r, t)

\* bits + 1: the last 0 becomes 1 and the ones behind it 0
Increment(bits) ==
    LET zeros == {i \in 1..Len(bits) : bits[i] = 0}
        last == CHOOSE i \in zeros : \A j \in zeros : j <= i
    IN  IF zeros = {} THEN <<1>> \o [i \in 1..Len(bits) |-> 0]
        ELSE [i \in 1..Len(bits) |-> IF i < last THEN bits[i] ELSE IF i = last THEN 1 ELSE 0]

\* a significand that a carry has made one bit too long ends in 0
Renormalize(d) ==
    IF Len(d.bits) > Significand
    THEN [bits |-> SubSeq(d.bits, 1, Significand), exp |-> d.exp - 1]
    ELSE d

\* hits / total as a double, 0 < hits < total: round to nearest, ties to even
DoubleQuotient(hits, total) ==
    LET z == LeadingZeros(hits, total)
        r0 == Remainder(hits, total, z)
        m == Expand(r0, total, Significand)
        r1 == Remainder(r0, total, Significand)
        up == 2 * r1 > total \/ (2 * r1 = total /\ m[Significand] = 1)
    IN  Renormalize([bits |-> IF up THEN Increment(m) ELSE m, exp |-> z + Significand])

\* the natural number with the given bits, most significant first
RECURSIVE ValueOf(_)
ValueOf(bits) ==
    IF Len(bits) = 0 THEN 0
    ELSE IF Len(bits) = 1 THEN bits[1]
    ELSE LET half == Len(bits) \div 2
         IN  ValueOf(SubSeq(bits, 1, half)) * 2^(Len(bits) - half)
             + ValueOf(SubSeq(bits, half + 1, Len(bits)))

\* the last width bits of a natural number, most significant first
BitsOfWidth(n, width) == [i \in 1..width |-> (n \div 2^(width - i)) % 2]

\* the bits of a natural number below 2^30, without leading zeros
BitsOf(n) ==
    BitsOfWidth(n, CHOOSE w \in 0..30 : 2^w > n /\ (w = 0 \/ 2^(w - 1) <= n))

\* the bits times c plus carry, worked out 18 bits at a time from the right
RECURSIVE TimesSmall(_, _, _)
TimesSmall(bits, c, carry) ==
    IF Len(bits) <= 18 THEN BitsOf(c * ValueOf(bits) + carry)
    ELSE LET front == SubSeq(bits, 1, Len(bits) - 18)
             v == c * ValueOf(SubSeq(bits, Len(bits) - 17, Len(bits))) + carry
         IN  TimesSmall(front, c, v \div 2^18) \o BitsOfWidth(v % 2^18, 18)

\* the exact product rounded to a double: round to nearest, ties to even
DoubleTimes(d, c) ==
    LET product == TimesSmall(d.bits, c, 0)
        extra == Len(product) - Significand
        kept == SubSeq(product, 1, Significand)
        tail == SubSeq(product, Significand + 1, Len(product))
        up == /\ tail[1] = 1
              /\ \/ \E i \in 2..Len(tail) : tail[i] = 1
                 \/ kept[Significand] = 1
    IN  IF extra <= 0 THEN [bits |-> product, exp |-> d.exp]
        ELSE Renormalize([bits |-> IF up THEN Increment(kept) ELSE kept,
                          exp |-> d.exp - extra])

\* Math.round of a double below 2^30 with bits behind the point: the whole
\* part, plus one when the fraction is a half or more
MathRound(d) ==
    LET whole == Len(d.bits) - d.exp
    IN  (IF whole > 0 THEN ValueOf(SubSeq(d.bits, 1, whole)) ELSE 0)
        + (IF whole >= 0 THEN d.bits[whole + 1] ELSE 0)

\* totalRequests > 0 ? Math.round((this.stats.hits / totalRequests) * 100) : 0
hitRate(st) ==
    LET totalRequests == st.hits + st.misses
    IN  IF totalRequests > 0
        THEN IF st.hits = 0 THEN 0
             ELSE IF st.hits = totalRequests THEN 100
             ELSE MathRound(DoubleTimes(DoubleQuotient(st.hits, totalRequests), 100))
        ELSE 0

\* getStats(): the counters, the total size, the number of entries, hitRate
GetStats ==
    /\ cres' = [op |-> "getStats", found |-> TRUE, data |-> NullData, case |-> "none",
                stats |-> [hits |-> stats.hits, misses |-> stats.misses,
                           size |-> getCurrentSize(cache), entries |-> Len(cache),
                           hitRate |-> hitRate(stats)]]
    /\ lruStep' = LruOff
    /\ UNCHANGED <<cache, stats, cacheStored, ccalls, now>>
    /\ QueueIdle
    /\ UNCHANGED <<kvars, avars, lvars, pvars>>

\* the constructor: loadCache() takes the entries and the counters from
\* storage when they are there; here storage is empty, or holds what
\* saveCache left when an earlier instance had served 22 hits and 16 misses
\* and then stored one entry
InitCacheLoaded ==
    /\ \E there \in BOOLEAN :
          /\ cacheStored = IF there
                           THEN SaveCache(<<[key |-> "A", data |-> Data30, timestamp |-> 0,
                                             expiresAt |-> defaultTTL,
                                             size |-> calculateSize(Data30),
                                             hits |-> 22, lastAccessed |-> 0]>>,
                                          [hits |-> 22, misses |-> 16])
                           ELSE [saved |-> FALSE, entries |-> <<>>, stats |-> [hits |-> 0, misses |-> 0]]
          /\ cache = cacheStored.entries
          /\ stats = cacheStored.stats
    /\ cres = CacheOutcome("new", FALSE, NullData, "none")
    /\ ccalls = 0
    /\ lruStep = 0
    /\ pending = <<>>
    /\ seqCache = <<>>

\* one key stored and read, another only asked for, the statistics read
\* after any call
NextStats ==
    \/ Set("A", Data30, NoTTL, MaxLruCalls)
    \/ \E k \in {"A", "B"} : Get(k, MaxLruCalls)
    \/ Clear(MaxLruCalls)
    \/ GetStats

(***************************************************************************)
(* CacheManager.set as the async function it is.  The call runs up to      *)
(* `await this.evictLRU(entry.size)` when the entry does not fit: evictLRU *)
(* has no await of its own and deletes at once, then set is suspended and  *)
(* its continuation (the insertion and saveCache) runs as a microtask,     *)
(* after the code that made the call has run on, further set calls         *)
(* included.  When the entry fits there is no await and set inserts at     *)
(* once.                                                                   *)
(***************************************************************************)
\* the entry built at the start of set
NewEntry(key, data, ttl, t) ==
    [key |-> key, data |-> data, timestamp |-> t,
     expiresAt |-> t + (IF ttl = NoTTL \/ ttl = 0 THEN defaultTTL ELSE ttl),
     size |-> calculateSize(data), hits |-> 0, lastAccessed |-> t]

\* if (this.getCurrentSize() + entry.size > this.maxSize)
NeedsSpace(c, entry) == getCurrentSize(c) + entry.size > maxSize

\* set run from start to end on cache c
SetWhole(c, entry) ==
    CachePut(IF NeedsSpace(c, entry) THEN evictLRU(c, entry.size) ELSE c, entry)

\* the synchronous part of set: up to the await, or to the end
SetStart(key, data, ttl, budget) ==
    /\ ccalls < budget
    /\ Len(pending) < MaxPending
    /\ LET entry == NewEntry(key, data, ttl, now)
       IN  /\ seqCache' = SetWhole(seqCache, entry)
           /\ IF NeedsSpace(cache, entry)
              THEN /\ cache' = evictLRU(cache, entry.size)
                   /\ pending' = Append(pending, entry)
                   /\ cres' = CacheOutcome("set", FALSE, NullData, "suspended")
                   /\ UNCHANGED cacheStored
              ELSE /\ cache' = CachePut(cache, entry)
                   /\ cacheStored' = SaveCache(cache', stats)
                   /\ cres' = CacheOutcome("set", TRUE, NullData, "none")
                   /\ UNCHANGED pending
    /\ lruStep' = LruOff
    /\ ccalls' = ccalls + 1
    /\ UNCHANGED <<stats, now, kvars, lvars, pvars>>
    /\ QueueIdle

\* the continuation of the set suspended first
SetResume ==
    /\ pending # <<>>
    /\ cache' = CachePut(cache, Head(pending))
    /\ cacheStored' = SaveCache(cache', stats)
    /\ pending' = Tail(pending)
    /\ cres' = CacheOutcome("set", TRUE, NullData, "resumed")
    /\ UNCHANGED <<stats, now, kvars, lvars, pvars, ccalls, lruStep, seqCache>>
    /\ QueueIdle

\* set calls with payloads of 30 MiB, started while earlier ones are suspended
NextAsync ==
    \/ \E k \in Keys : SetStart(k, Data30, NoTTL, MaxLruCalls)
    \/ SetResume
    \/ Tick

\* two keys, payloads of 60 MiB and 120 MiB: a second entry already forces
\* an eviction, the large payload exceeds the whole budget
NextCache ==
    \/ \E k \in {"A", "B"}, d \in {Data60, DataBig}, t \in TTLs : Set(k, d, t, MaxCacheCalls)
    \/ \E k \in {"A", "B"} : Get(k, MaxCacheCalls)
    \/ \E k \in {"A", "B"} : Delete(k, MaxCacheCalls)
    \/ Clear(MaxCacheCalls)
    \/ Cleanup(MaxCacheCalls)
    \/ Tick

(***************************************************************************)
(* PerformanceOptimizer.  A number that need not be whole (a rate, a batch *)
(* size) is a fraction num/den in lowest terms.                            *)
(***************************************************************************)
RECURSIVE GCD(_, _)
GCD(a, b) == IF b = 0 THEN a ELSE GCD(b, a % b)

Rat(n, d) == [num |-> n \div GCD(n, d), den |-> d \div GCD(n, d)]
Whole(n) == Rat(n, 1)
RatMin(x, y) == IF x.num * y.den <= y.num * x.den THEN x ELSE y

\* Math.round of the quotient a / b of two non-negative integers
Round(a, b) == (2 * a + b) \div (2 * b)

maxHistorySize == 100

Qualities == {"auto", "speed", "balanced", "quality"}
Tiers == {"free", "premium", "professional"}
\* processing times reported by the callers, in milliseconds (whole seconds)
TimesMs == {20000, 45000, 90000}

RECURSIVE Sum(_)
Sum(s) == IF s = <<>> THEN 0 ELSE Head(s) + Sum(Tail(s))

calculateAverageTime(times) ==
    IF Len(times) = 0 THEN 0 ELSE Round(Sum(times), Len(times))

calculateThroughput(avgTime) ==
    IF avgTime = 0 THEN 0 ELSE Round(3600, avgTime)

\* (rate * (n - 1) + 100) / n
RunningAverage(rate, n) == Rat(rate.num * (n - 1) + 100 * rate.den, rate.den * n)

NoOutcome == [done |-> FALSE]

\* this.processingTimes.shift()
shift_pop(times) == SubSeq(times, 1, Len(times) - 1)

shift(times) == Tail(times)

InitPerf ==
    /\ metrics = [avgTime |-> 0, totalProcessed |-> 0, successRate |-> Whole(100),
                  errorRate |-> Whole(0), throughput |-> 0, queueLength |-> 0]
    /\ settings = [quality |-> "balanced", enablePreProcessing |-> TRUE,
                   enablePostProcessing |-> TRUE, enableParallelProcessing |-> TRUE,
                   maxConcurrentRequests |-> 3, timeoutMs |-> 300000]
    /\ processingTimes = <<>>
    /\ perfStored = [metrics |-> NoOutcome, times |-> NoOutcome, settings |-> NoOutcome]
    /\ request = [prompt |-> "p", priority |-> "normal"]
    /\ reqOptions = [bitrate |-> "high", fps |-> 60, quality |-> "4K"]
    /\ optimized = NoOutcome
    /\ batch = NoOutcome
    /\ recorded = NoOutcome
    /\ allTimes = <<>>
    /\ pcalls = 0

PerfFrame == QueueIdle /\ UNCHANGED <<now, cvars, kvars, avars, lvars>>

RecordProcessingTime(timeMs, success, budget) ==
    /\ pcalls < budget
    /\ pcalls' = pcalls + 1
    /\ allTimes' = Append(allTimes, timeMs \div 1000)
    /\ LET pushed == Append(processingTimes, timeMs \div 1000)
           times == IF Len(pushed) > maxHistorySize THEN shift(pushed) ELSE pushed
           n == metrics.totalProcessed + 1
           avg == calculateAverageTime(times)
       IN  /\ processingTimes' = times
           /\ metrics' = [metrics EXCEPT
                  !.totalProcessed = n,
                  !.avgTime = avg,
                  !.successRate = IF success THEN RunningAverage(@, n) ELSE @,
                  !.errorRate = IF success THEN @ ELSE RunningAverage(@, n),
                  !.throughput = calculateThroughput(avg)]
           /\ perfStored' = [perfStored EXCEPT !.metrics = metrics', !.times = times]
    /\ recorded' = [done |-> TRUE, timeMs |-> timeMs, success |-> success]
    /\ UNCHANGED <<settings, request, reqOptions, optimized, batch>>
    /\ PerfFrame

\* updateSettings({ quality })
UpdateSettings(quality) ==
    /\ settings' = [settings EXCEPT !.quality = quality]
    /\ perfStored' = [perfStored EXCEPT !.settings = settings']
    /\ UNCHANGED <<metrics, processingTimes, request, reqOptions, optimized, batch, recorded, allTimes, pcalls>>
    /\ PerfFrame

\* the caller builds a request with an options object of its own
NewRequest(fps, quality) ==
    /\ request' = [prompt |-> "p", priority |-> "normal"]
    /\ reqOptions' = [bitrate |-> "high", fps |-> fps, quality |-> quality]
    /\ optimized' = NoOutcome
    /\ UNCHANGED <<metrics, settings, processingTimes, perfStored, batch, recorded, allTimes, pcalls>>
    /\ PerfFrame

Max(a, b) == IF a >= b THEN a ELSE b
MinOf(a, b) == IF a <= b THEN a ELSE b

\* autoOptimize(request, userTier): what it leaves in the options object,
\* which its copy { ...request } shares with the request
autoOptimize(o, userTier) ==
    LET o1 == IF metrics.avgTime > 60
              THEN [o EXCEPT !.bitrate = "low",
                             !.quality = IF @ = "4K" THEN "1080p" ELSE @]
              ELSE o
        o2 == IF metrics.queueLength > 5 THEN [o1 EXCEPT !.fps = MinOf(@, 30)] ELSE o1
    IN  IF userTier = "free" THEN [o2 EXCEPT !.quality = "720p", !.bitrate = "medium"]
        ELSE o2

\* `optimized = this.autoOptimize(...)` assigns to a const binding: the
\* right-hand side is evaluated first, then the assignment throws a
\* TypeError where const is kept, and succeeds where the build has turned
\* const into var
ConstAssign == {"throws", "assigns"}

\* optimizeParameters(request, userTier).  optimized = { ...request } is a
\* new object with the request's own fields; optimized.options is the very
\* object request.options refers to.
OptimizeParameters(userTier, constAssign) ==
    /\ reqOptions' =
          CASE settings.quality = "speed" ->
                 [reqOptions EXCEPT !.bitrate = "low", !.fps = MinOf(@, 30)]
            [] settings.quality = "quality" ->
                 [reqOptions EXCEPT !.bitrate = "ultra", !.fps = Max(@, 30)]
            [] settings.quality = "balanced" ->
                 IF userTier = "free"
                 THEN [reqOptions EXCEPT !.bitrate = "medium", !.fps = 30]
                 ELSE reqOptions
            [] settings.quality = "auto" -> autoOptimize(reqOptions, userTier)
    /\ optimized' =
          [done |-> TRUE,
           threw |-> (settings.quality = "auto" /\ constAssign = "throws"),
           prompt |-> request.prompt,
           priority |-> IF settings.quality = "speed" THEN "high" ELSE request.priority]
    /\ UNCHANGED <<request, metrics, settings, processingTimes, perfStored, batch, recorded, allTimes, pcalls>>
    /\ PerfFrame

\* const baseSize = userTier === 'professional' ? 10 : userTier === 'premium' ? 5 : 2
baseSize(userTier) ==
    IF userTier = "professional" THEN 10 ELSE IF userTier = "premium" THEN 5 ELSE 2

\* Math.floor(baseSize * 0.7)
FloorSeventyPercent(n) == (n * 7) \div 10

getOptimalBatchSize(avgTime, userTier) ==
    IF avgTime > 60 THEN Whole(Max(1, FloorSeventyPercent(baseSize(userTier))))
    ELSE IF avgTime < 30
    THEN RatMin(Rat(baseSize(userTier) * 3, 2), Whole(baseSize(userTier) + 3))
    ELSE Whole(baseSize(userTier))

GetOptimalBatchSize(userTier) ==
    /\ batch' = [done |-> TRUE, userTier |-> userTier, avgTime |-> metrics.avgTime,
                 size |-> getOptimalBatchSize(metrics.avgTime, userTier)]
    /\ UNCHANGED <<metrics, settings, processingTimes, perfStored, request, reqOptions,
                   optimized, recorded, allTimes, pcalls>>
    /\ PerfFrame

\* successes and failures of short, medium and long processing times, and
\* batch sizes asked for every tier
NextMetrics ==
    \/ \E ms \in TimesMs, ok \in BOOLEAN : RecordProcessingTime(ms, ok, MaxPerfCalls)
    \/ \E t \in Tiers : GetOptimalBatchSize(t)

\* requests of two frame rates and two resolutions under every quality
\* mode, with fast and slow processing times recorded
NextOptimize ==
    \/ \E fps \in {24, 60}, quality \in {"4K", "1080p"} : NewRequest(fps, quality)
    \/ \E q \in Qualities : UpdateSettings(q)
    \/ \E t \in Tiers, ca \in ConstAssign : OptimizeParameters(t, ca)
    \/ \E ms \in {20000, 90000} : RecordProcessingTime(ms, TRUE, MaxPerfCalls)

(***************************************************************************)
(* CacheManager.generateKey.  A string is a sequence of characters; the    *)
(* character "Zhe" stands for U+0416 and "zhe" for U+0436, which lie       *)
(* outside Latin-1.                                                        *)
(***************************************************************************)
PromptChars == {"a", "A", "b", " ", "Zhe"}

RECURSIVE StringsUpTo(_)
StringsUpTo(n) ==
    IF n = 0 THEN {<<>>}
    ELSE StringsUpTo(n - 1) \cup
         {Append(p, c) : p \in {q \in StringsUpTo(n - 1) : Len(q) = n - 1}, c \in PromptChars}

Prompts == StringsUpTo(MaxLen)

\* the char code of a character (charCodeAt)
Code(c) ==
    CASE c = " " -> 32 [] c = "\"" -> 34 [] c = "," -> 44 [] c = "1" -> 49
      [] c = "2" -> 50 [] c = ":" -> 58 [] c = "A" -> 65 [] c = "a" -> 97
      [] c = "b" -> 98 [] c = "m" -> 109 [] c = "o" -> 111 [] c = "p" -> 112
      [] c = "q" -> 113 [] c = "r" -> 114 [] c = "t" -> 116 [] c = "{" -> 123
      [] c = "}" -> 125 [] c = "Zhe" -> 1046 [] c = "zhe" -> 1078

\* String.prototype.toLowerCase
LowerChar(c) == CASE c = "A" -> "a" [] c = "Zhe" -> "zhe" [] OTHER -> c

toLowerCase_none(s) == s

toLowerCase(s) == [i \in 1..Len(s) |-> LowerChar(s[i])]

\* String.prototype.trim
RECURSIVE TrimStart(_)
TrimStart(s) == IF s # <<>> /\ Head(s) = " " THEN TrimStart(Tail(s)) ELSE s

RECURSIVE TrimEnd(_)
TrimEnd(s) ==
    IF s # <<>> /\ s[Len(s)] = " " THEN TrimEnd(SubSeq(s, 1, Len(s) - 1)) ELSE s

trim(s) == TrimEnd(TrimStart(s))

\* JSON.stringify of a string without characters that need escaping
JsonString(s) == <<"\"">> \o s \o <<"\"">>

\* an options object: its own properties in insertion order, each with its
\* name and the JSON text of its value
Field(name, json) == [name |-> name, json |-> json]
PromptName == <<"p", "r", "o", "m", "p", "t">>
OptionsSet ==
    { <<>>,
      <<Field(<<"q">>, <<"1">>)>>,
      <<Field(<<"q">>, <<"2">>)>>,
      <<Field(PromptName, JsonString(<<"b">>))>> }

\* { prompt: ..., ...options }: a property of options named prompt replaces
\* the value and keeps the first position
RECURSIVE Spread(_, _)
Spread(fields, options) ==
    IF options = <<>> THEN fields
    ELSE LET f == Head(options)
             merged == IF \E i \in 1..Len(fields) : fields[i].name = f.name
                       THEN [i \in 1..Len(fields) |->
                               IF fields[i].name = f.name THEN f ELSE fields[i]]
                       ELSE Append(fields, f)
         IN  Spread(merged, Tail(options))

normalized(prompt, options) ==
    Spread(<<Field(PromptName, JsonString(trim(toLowerCase(prompt))))>>, options)

\* JSON.stringify of an object
RECURSIVE JsonFields(_)
JsonFields(fields) ==
    IF fields = <<>> THEN <<>>
    ELSE JsonString(Head(fields).name) \o <<":">> \o Head(fields).json
         \o (IF Len(fields) > 1 THEN <<",">> ELSE <<>>) \o JsonFields(Tail(fields))

stringify(fields) == <<"{">> \o JsonFields(fields) \o <<"}">>

\* btoa: base64 of the char codes, as the indices 0..63 of the base64
\* alphabet (62 is '+', 63 is '/') and Pad for '='
Pad == 64

RECURSIVE Base64(_)
Base64(bytes) ==
    IF bytes = <<>> THEN <<>>
    ELSE LET b1 == bytes[1]
             b2 == IF Len(bytes) >= 2 THEN bytes[2] ELSE 0
             b3 == IF Len(bytes) >= 3 THEN bytes[3] ELSE 0
             s1 == b1 \div 4
             s2 == (b1 % 4) * 16 + b2 \div 16
             s3 == IF Len(bytes) >= 2 THEN (b2 % 16) * 4 + b3 \div 64 ELSE Pad
             s4 == IF Len(bytes) >= 3 THEN b3 % 64 ELSE Pad
         IN  <<s1, s2, s3, s4>> \o
             (IF Len(bytes) > 3 THEN Base64(SubSeq(bytes, 4, Len(bytes))) ELSE <<>>)

\* generateKey: the key, or threw when btoa rejects a character above 0xFF
generateKey(prompt, options) ==
    LET text == stringify(normalized(prompt, options))
        bytes == [i \in 1..Len(text) |-> Code(text[i])]
    IN  IF \E i \in 1..Len(bytes) : bytes[i] > 255
        THEN [threw |-> TRUE, key |-> <<>>]
        ELSE [threw |-> FALSE,
              key |-> SelectSeq(Base64(bytes), LAMBDA x : x \notin {62, 63, Pad})]

NoKey == [threw |-> FALSE, key |-> <<>>]

InitKeyIdle ==
    /\ keyIn = [p1 |-> <<>>, p2 |-> <<>>, options |-> <<>>]
    /\ keyOut = [done |-> FALSE, k1 |-> NoKey, k2 |-> NoKey]

InitKey ==
    /\ keyIn \in [p1 : Prompts, p2 : Prompts, options : OptionsSet]
    /\ keyOut = [done |-> FALSE, k1 |-> NoKey, k2 |-> NoKey]

GenerateKeys ==
    /\ ~keyOut.done
    /\ keyOut' = [done |-> TRUE,
                  k1 |-> generateKey(keyIn.p1, keyIn.options),
                  k2 |-> generateKey(keyIn.p2, keyIn.options)]
    /\ UNCHANGED <<keyIn, cvars, avars, lvars, pvars, now>>
    /\ QueueIdle

NextKey == GenerateKeys

InitKeys ==
    /\ InitKey
    /\ obj = <<>> /\ queue = <<>> /\ processing = <<>> /\ nextId = 1 /\ now = 0
    /\ stored = [saved |-> FALSE, items |-> <<>>]
    /\ result = Outcome("void", FALSE, 0)
    /\ calls = 0 /\ addPhase = TRUE /\ admitLog = <<>>
    /\ cache = <<>> /\ ccalls = 0 /\ lruStep = 0
    /\ pending = <<>> /\ seqCache = <<>>
    /\ listeners = <<>> /\ handles = <<>>
    /\ lastNotify = [snapshot |-> <<>>, called |-> <<>>, left |-> {}]
    /\ InitPerf
    /\ stats = [hits |-> 0, misses |-> 0]
    /\ cacheStored = [saved |-> FALSE, entries |-> <<>>, stats |-> [hits |-> 0, misses |-> 0]]
    /\ cres = CacheOutcome("new", FALSE, NullData, "none")

SpecKey == InitKeys /\ [][NextKey]_vars

Init == InitQueue /\ InitCache /\ InitKeyIdle /\ InitListeners /\ InitPerf

\* calls of any kind, arbitrary status arguments included; items of two
\* priorities
NextQueue ==
    \/ \E pr \in {"normal", "high"} : Add(pr, TRUE)
    \/ \E id \in Ids : Remove(id, TRUE)
    \/ \E id \in Ids, st \in StatusArgs : UpdateProgress(id, 100, st, TRUE)
    \/ ClearCompleted(TRUE)
    \/ \E rd \in BOOLEAN : Reload(rd)

SpecQueue == Init /\ [][NextQueue]_vars

\* items of all three priorities, worked off by terminal reports and removals
NextOrder ==
    \/ \E pr \in Priorities : Add(pr, TRUE)
    \/ \E id \in Ids, st \in Terminal : UpdateProgress(id, 100, st, TRUE)
    \/ \E id \in Ids : Remove(id, TRUE)

SpecOrder == Init /\ [][NextOrder]_vars

\* items of all three priorities, terminal reports, removals, and the page
\* being loaded again on what the last add stored
NextAdmit ==
    \/ \E pr \in Priorities : Add(pr, TRUE)
    \/ \E id \in Ids, st \in Terminal : UpdateProgress(id, 100, st, TRUE)
    \/ \E id \in Ids : Remove(id, TRUE)
    \/ Reload(TRUE)

SpecAdmit == Init /\ [][NextAdmit]_vars

\* items are added, then worked off: terminal reports and removals by the
\* caller, and the page being loaded again
NextDrain ==
    \/ Add("normal", TRUE)
    \/ \E id \in Ids, st \in Terminal : UpdateProgress(id, 100, st, TRUE)
    \/ \E id \in Ids : RemoveWithin(id, TRUE, MaxDrain)
    \/ Reload(TRUE)

\* the caller goes on reporting or removing the items of the active set;
\* the manager itself has no timer and no step of its own
SpecDrain ==
    /\ Init /\ [][NextDrain]_vars
    /\ WF_vars(\E id \in Range(processing) :
                  \/ \E st \in Terminal : UpdateProgress(id, 100, st, TRUE)
                  \/ RemoveWithin(id, TRUE, MaxDrain))

\* the same calls when the storage write of any call may fail
NextQueueFault ==
    \/ \E ok \in BOOLEAN : Add("normal", ok)
    \/ \E id \in Ids, ok \in BOOLEAN : Remove(id, ok)
    \/ \E id \in Ids, st \in {NoStatus, "completed"}, ok \in BOOLEAN :
          UpdateProgress(id, 100, st, ok)
    \/ \E ok \in BOOLEAN : ClearCompleted(ok)
    \/ \E rd \in BOOLEAN : Reload(rd)

SpecQueueFault == Init /\ [][NextQueueFault]_vars

\* adds and progress reports of any progress value and status while the
\* clock runs
NextProgress ==
    \/ Add("normal", TRUE)
    \/ \E id \in Ids, pg \in ProgressVals, st \in StatusArgs : UpdateProgress(id, pg, st, TRUE)
    \/ Tick

SpecProgress == Init /\ [][NextProgress]_vars

SpecCache == Init /\ [][NextCache]_vars

\* four keys, payloads of 30 MiB that never expire, reads of the first key
NextLru ==
    \/ \E k \in Keys : Set(k, Data30, NoTTL, MaxLruCalls)
    \/ Get("A", MaxLruCalls)
    \/ Tick

SpecLru == Init /\ [][NextLru]_vars

\* three keys, payloads of 30 MiB and 60 MiB that never expire, reads of the
\* first key
NextEvict ==
    \/ \E k \in {"A", "B", "C"}, d \in {Data30, Data60} : Set(k, d, NoTTL, MaxCacheCalls)
    \/ Get("A", MaxCacheCalls)
    \/ Tick

SpecEvict == Init /\ [][NextEvict]_vars

InitStats == InitQueue /\ InitCacheLoaded /\ InitKeyIdle /\ InitListeners /\ InitPerf

SpecStats == InitStats /\ [][NextStats]_vars

SpecAsync == Init /\ [][NextAsync]_vars

SpecListeners == Init /\ [][NextListeners]_vars

SpecOptimize == Init /\ [][NextOptimize]_vars

SpecMetrics == Init /\ [][NextMetrics]_vars

\* the durations, in seconds, an earlier instance recorded and saved: one
\* short of the capacity of the history
HistoryLoaded == [i \in 1..(maxHistorySize - 1) |-> i]

\* new PerformanceOptimizer() on the storage that instance left: loadMetrics()
\* takes metrics and processing times from it; all its runs succeeded
InitPerfLoaded ==
    /\ metrics = [avgTime |-> calculateAverageTime(HistoryLoaded),
                  totalProcessed |-> Len(HistoryLoaded),
                  successRate |-> Whole(100), errorRate |-> Whole(0),
                  throughput |-> calculateThroughput(calculateAverageTime(HistoryLoaded)),
                  queueLength |-> 0]
    /\ settings = [quality |-> "balanced", enablePreProcessing |-> TRUE,
                   enablePostProcessing |-> TRUE, enableParallelProcessing |-> TRUE,
                   maxConcurrentRequests |-> 3, timeoutMs |-> 300000]
    /\ processingTimes = HistoryLoaded
    /\ perfStored = [metrics |-> metrics, times |-> HistoryLoaded, settings |-> NoOutcome]
    /\ request = [prompt |-> "p", priority |-> "normal"]
    /\ reqOptions = [bitrate |-> "high", fps |-> 60, quality |-> "4K"]
    /\ optimized = NoOutcome
    /\ batch = NoOutcome
    /\ recorded = NoOutcome
    /\ allTimes = HistoryLoaded
    /\ pcalls = 0

InitHistory == InitQueue /\ InitCache /\ InitKeyIdle /\ InitListeners /\ InitPerfLoaded

\* outcomes recorded on top of a history that is about to fill up
NextHistory ==
    \E ms \in TimesMs, ok \in BOOLEAN : RecordProcessingTime(ms, ok, MaxPerfCalls)

SpecHistory == InitHistory /\ [][NextHistory]_vars

(***************************************************************************)
(* Claims about VideoQueueManager.                                         *)
(***************************************************************************)
Min(a, b) == IF a <= b THEN a ELSE b

IsPrefix(s, t) == Len(s) <= Len(t) /\ SubSeq(t, 1, Len(s)) = s

WithStatus(st) == {i \in DOMAIN obj : obj[i].status = st}

\* the Map only holds items that are also in this.queue, so an item is one
\* object however it is reached
ProcessingInQueue == Range(processing) \subseteq Range(queue)

\* C1: the number of items whose status is 'processing' never exceeds
\* maxConcurrent, after any sequence of add, remove, updateProgress,
\* clearCompleted and re-construction from storage.
C1_ProcessingWithinCap == Cardinality(WithStatus("processing")) <= maxConcurrent

\* the four adds of the priority scenario: low, high, normal, high
FourAdded ==
    /\ addPhase
    /\ nextId = 5
    /\ obj[1].priority = "low" /\ obj[2].priority = "high"
    /\ obj[3].priority = "normal" /\ obj[4].priority = "high"

\* C4 as stated: after adding low, high, normal, high to an empty queue the
\* items are admitted in the order high, high, normal, low (ids 2, 4, 3, 1).
C4_AdmittedByPriority == FourAdded => IsPrefix(admitLog, <<2, 4, 3, 1>>)

\* C4 amended: after adding low, high, normal, high to an empty queue the
\* stored list is high, high, normal, low, the first three items were
\* admitted in the order of the add calls (each add admits at once while
\* fewer than maxConcurrent items are active) and the second high is queued.
C4_StoredByPriorityAdmittedByArrival ==
    FourAdded =>
        /\ queue = <<2, 4, 3, 1>>
        /\ admitLog = <<1, 2, 3>>
        /\ processing = <<1, 2, 3>>
        /\ WithStatus("processing") = {1, 2, 3}
        /\ WithStatus("queued") = {4}

C4_Witness == FourAdded /\ result.ret = "id"

\* high before normal before low
Rank(p) == CASE p = "high" -> 0 [] p = "normal" -> 1 [] p = "low" -> 2

\* i comes before j: higher priority, or equal priority and earlier arrival
\* (ids are handed out in arrival order)
Outranks(o, i, j) ==
    \/ Rank(o[i].priority) < Rank(o[j].priority)
    \/ o[i].priority = o[j].priority /\ i < j

SortedByRank(o, q) == \A a, b \in 1..Len(q) : a < b => Outranks(o, q[a], q[b])

\* the items that join the active set in a step
Admitted == Range(processing') \ Range(processing)

\* no item that is still queued comes before an item just admitted
AdmitsFirstQueued ==
    \A i \in Admitted : \A j \in Range(queue') :
        obj'[j].status = "queued" => ~Outranks(obj', j, i)

\* only add hands out an id
IsAdd == nextId' = nextId + 1

AddKeepsOrder == IsAdd => queue = SelectSeq(queue', LAMBDA i : i # nextId)

\* C26 as stated: the stored list is always ordered by priority rank and,
\* within a priority, by arrival; an admission never passes over a queued
\* item that comes before the admitted one; add leaves the relative order
\* and the status of every item already there unchanged.
C26_OrderedAndAddChangesNoStatus ==
    [][/\ SortedByRank(obj', queue')
       /\ AdmitsFirstQueued
       /\ AddKeepsOrder
       /\ IsAdd => \A i \in Range(queue) : obj'[i].status = obj[i].status]_vars

Active(i) == i \in Range(processing)
Queued(i) == i \in Range(queue) /\ obj[i].status = "queued"

\* C27: in a run in which adds come to an end and every item of the active
\* set eventually leaves it (reported completed or failed, or removed), every
\* queued item is eventually admitted to the active set: it does not stay
\* queued for ever (unless the caller removes it or reports a status for it
\* first, it is admitted).
C27_QueuedEventuallyAdmitted ==
    (\A j \in Ids : Active(j) ~> ~Active(j))
        => (\A i \in Ids : Queued(i) ~> (Active(i) \/ ~Queued(i)))

\* C28: an item is in the active set exactly when its status is
\* 'processing': getStatus().processing equals the number of tracked items
\* whose status is 'processing', and no item is counted as queued while it
\* is in the active set.
C28_ActiveSetMatchesStatus ==
    /\ \A i \in DOMAIN obj : Active(i) <=> obj[i].status = "processing"
    /\ StatusProcessing = Cardinality(WithStatus("processing"))
    /\ \A i \in Range(queue) : ~(Queued(i) /\ Active(i))

\* C29: what getAll() returns, which is also the snapshot handed to the
\* listeners, holds every tracked item once: no id appears twice in it.
C29_GetAllListsEachItemOnce ==
    LET all == getAll(queue, processing)
    IN  /\ \A a, b \in 1..Len(all) : a # b => all[a] # all[b]
        /\ Range(all) = Range(queue) \cup Range(processing)

\* C30: when add, remove, updateProgress or clearCompleted returns after a
\* successful storage write (remove and updateProgress write when they find
\* the id), the list in storage equals the list in memory item for item,
\* status included.
C30_StoredListEqualsMemory ==
    [][(\/ \E pr \in Priorities : Add(pr, TRUE)
        \/ \E id \in Range(queue) : Remove(id, TRUE)
        \/ \E id \in Range(queue) \cup Range(processing), st \in StatusArgs :
              UpdateProgress(id, 100, st, TRUE)
        \/ ClearCompleted(TRUE))
       => stored' = Serialize(obj', queue')]_vars

\* C5: the only status changes an item makes are queued->processing,
\* processing->completed and processing->failed, whatever call is made on
\* the manager holding it.
AllowedTransitions ==
    {<<"queued", "processing">>, <<"processing", "completed">>,
     <<"processing", "failed">>}

C5_OnlyAllowedTransitions ==
    [][(~ \E rd \in BOOLEAN : Reload(rd)) =>
         \A i \in DOMAIN obj \cap DOMAIN obj' :
            obj[i].status # obj'[i].status =>
               <<obj[i].status, obj'[i].status>> \in AllowedTransitions]_vars

\* C8: a terminal report for an item of the active set takes the item out
\* of the set and, in the same call, turns the first queued item of the
\* stored list (if any) to 'processing' and puts it into the set; with no
\* queued item the size of the set ends one lower.
TerminalReport(id) ==
    /\ id \in Range(processing)
    /\ calls' = calls + 1
    /\ id \in DOMAIN obj'
    /\ obj'[id].status \in Terminal
    /\ \E pg \in ProgressVals, st \in Terminal, ok \in BOOLEAN : UpdateProgress(id, pg, st, ok)

C8_TerminalReportAdmitsNext ==
    [][\A id \in Ids :
         TerminalReport(id) =>
            LET waiting == {k \in 1..Len(queue) :
                              queue[k] # id /\ obj[queue[k]].status = "queued"}
            IN  /\ id \notin Range(processing')
                /\ obj'[id].status \in Terminal
                /\ IF waiting = {}
                   THEN Len(processing') = Len(processing) - 1
                   ELSE LET n == queue[CHOOSE k \in waiting : \A j \in waiting : k <= j]
                        IN  /\ obj'[n].status = "processing"
                            /\ n \in Range(processing')
                            /\ \A k \in waiting :
                                  queue[k] # n => obj'[queue[k]].status = "queued"]_vars

\* a terminal report has just admitted the fourth item: the report ran
\* processNext (two notifications) and the set is full again
C8_Witness ==
    /\ result = Outcome("void", FALSE, 2)
    /\ Len(processing) = maxConcurrent
    /\ \E i \in DOMAIN obj : obj[i].status \in Terminal /\ i \notin Range(processing)

Count(s, x) == Cardinality({i \in 1..Len(s) : s[i] = x})

\* C13: when a listener unsubscribes itself while it is being notified,
\* every other listener registered when the notification began is still
\* invoked exactly once per registration during that notification.
C13_SelfUnsubscribeSkipsNobody ==
    lastNotify.left # {} =>
        \A cb \in Range(lastNotify.snapshot) \ lastNotify.left :
            Count(lastNotify.called, cb) = Count(lastNotify.snapshot, cb)

\* C14: calling an unsubscribe function that has been called before leaves
\* the registered listeners as they are, also when the callback it was made
\* for has been subscribed more than once.
C14_UnsubscribeIdempotent ==
    [][\A h \in 1..MaxSubs :
         (h <= Len(handles) /\ handles[h].uses >= 1 /\ Unsubscribe(h)) =>
            listeners' = listeners]_vars

\* C15: remove and updateProgress with an id the queue does not track do
\* not throw, remove returns false, and the stored list, the items, the
\* active set and the persisted state stay as they are, with no listener
\* notified; this also holds while the storage rejects writes.
Untracked(id) == id \notin Range(queue) /\ id \notin Range(processing)

C15_UnknownIdIsNoOp ==
    [][\A id \in Ids :
         (calls' = calls + 1 /\ Untracked(id)) =>
            /\ (\E ok \in BOOLEAN : Remove(id, ok)) =>
                  /\ result' = Outcome("false", FALSE, 0)
                  /\ UNCHANGED <<obj, queue, processing, stored, lvars>>
            /\ (\E pg \in ProgressVals, st \in StatusArgs, ok \in BOOLEAN :
                   UpdateProgress(id, pg, st, ok)) =>
                  /\ result' = Outcome("void", FALSE, 0)
                  /\ UNCHANGED <<obj, queue, processing, stored, lvars>>]_vars

\* remove has just returned false for an id that was removed before, with
\* other items still tracked
C15_Witness ==
    /\ result = Outcome("false", FALSE, 0)
    /\ calls = MaxCalls
    /\ queue # <<>>
    /\ \E id \in 1..(nextId - 1) : id \notin Range(queue)

\* C17: every item whose status is 'processing', however it got there, has
\* startedAt set; startedAt, once set, never changes; completedAt is unset
\* for an item that has not been reported completed or failed and is set by
\* the report that makes it so.
C17_TimestampsFollowStatus ==
    [][\A i \in DOMAIN obj' :
         /\ obj'[i].status = "processing" => obj'[i].startedAt # Unset
         /\ obj'[i].status \in Terminal => obj'[i].completedAt # Unset
         /\ i \in DOMAIN obj =>
               /\ obj[i].startedAt # Unset => obj'[i].startedAt = obj[i].startedAt
               /\ (obj[i].completedAt = Unset /\ obj'[i].status \notin Terminal) =>
                     obj'[i].completedAt = Unset]_vars

\* C18: between two states in which an item is 'processing' its progress
\* does not decrease, and it lies within 0..100.
C18_ProgressMonotone ==
    [][\A i \in DOMAIN obj \cap DOMAIN obj' :
         (obj[i].status = "processing" /\ obj'[i].status = "processing") =>
            /\ obj'[i].progress \in 0..100
            /\ obj'[i].progress >= obj[i].progress]_vars

\* C10: a call whose storage write fails still returns without throwing.
C10_NeverThrows == result.threw = FALSE

(***************************************************************************)
(* Claims about CacheManager.                                              *)
(***************************************************************************)
\* C2: after every set, delete, clear or sweep the sizes of the stored
\* entries add up to at most maxSize, whatever the size of the entry set.
C2_SizeWithinBudget == getCurrentSize(cache) <= maxSize

\* C3: get(key) returns the stored data exactly when an entry for key exists
\* and the clock has not passed its expiresAt (now + ttl at the time of the
\* set, 24 hours when no ttl is given); otherwise it returns absent, adds
\* exactly one to the miss counter and leaves no entry for key behind.
C3_GetHonoursExpiry ==
    [][/\ \A k \in Keys :
            (ccalls' = ccalls + 1 /\ cres'.op = "get" /\ Get(k, MaxCacheCalls)) =>
               LET live == \E i \in 1..Len(cache) :
                              cache[i].key = k /\ now <= cache[i].expiresAt
               IN  IF live
                   THEN /\ cres'.found
                        /\ \E i \in 1..Len(cache) : cache[i].key = k /\ cres'.data = cache[i].data
                        /\ stats'.hits = stats.hits + 1
                        /\ stats'.misses = stats.misses
                   ELSE /\ ~cres'.found
                        /\ cres'.data = NullData
                        /\ stats'.misses = stats.misses + 1
                        /\ stats'.hits = stats.hits
                        /\ \A i \in 1..Len(cache') : cache'[i].key # k
       /\ \A k \in Keys, d \in {Data60, DataBig}, t \in TTLs :
            (ccalls' = ccalls + 1 /\ cres'.op = "set" /\ Set(k, d, t, MaxCacheCalls)) =>
               \E i \in 1..Len(cache') :
                  /\ cache'[i].key = k
                  /\ cache'[i].data = d
                  /\ cache'[i].expiresAt = now + (IF t > 0 THEN t ELSE defaultTTL)]_vars

\* a get has just found an entry whose expiresAt had passed; an earlier get
\* was a hit
C3_Witness == cres.case = "expired" /\ stats.hits > 0 /\ stats.misses > 0

\* C6: after set A, set B, set C, a hit on A and a set of D that has to
\* evict one entry, A is still stored and B is the entry evicted, however
\* the clock advanced between the calls.
C6_RecentlyReadSurvives ==
    lruStep = 5 => (HasKey(cache, "A") /\ ~HasKey(cache, "B"))

\* C25: a set evicts entries in ascending lastAccessed order and stops as
\* soon as the remaining total plus the new entry's size is at most maxSize:
\* it evicts until the entry fits, no entry beyond that, and nothing when
\* replacing the value of an existing key leaves the total within maxSize.
C25_EvictsOnlyWhatIsNeeded ==
    [][\A k \in {"A", "B", "C"}, d \in {Data30, Data60} :
         Set(k, d, NoTTL, MaxCacheCalls) =>
            LET others == {i \in 1..Len(cache) : cache[i].key # k}
                evicted == {i \in others : ~HasKey(cache', cache[i].key)}
                after == SumSizes(CacheDelete(cache, k)) + calculateSize(d)
            IN  /\ \A i \in evicted, j \in others :
                      cache[j].lastAccessed < cache[i].lastAccessed => j \in evicted
                /\ getCurrentSize(cache') <= maxSize
                /\ evicted # {} =>
                      \E i \in evicted :
                         /\ \A j \in evicted : cache[j].lastAccessed <= cache[i].lastAccessed
                         /\ getCurrentSize(cache') + cache[i].size > maxSize
                /\ (HasKey(cache, k) /\ after <= maxSize) => evicted = {}]_vars

\* C24: getStats().hitRate equals round(100 x hits / (hits + misses)) over
\* the global counters: it is the whole number nearest to that quotient (a
\* half rounds up), 0 when both counters are 0 (also right after clear),
\* always within 0..100, and 75 for 3 hits and 1 miss.
C24_HitRateIsRoundedPercentage ==
    cres.op = "getStats" =>
        LET h == cres.stats.hits
            t == cres.stats.hits + cres.stats.misses
            r == cres.stats.hitRate
        IN  /\ r \in 0..100
            /\ t = 0 => r = 0
            /\ t > 0 => 200 * h - t < 2 * r * t /\ 2 * r * t <= 200 * h + t
            /\ (h = 3 /\ t = 4) => r = 75

\* C11: a set whose estimated entry size exceeds maxSize stores nothing: it
\* returns without an error and the cache holds no entry for the key
\* afterwards.
C11_OversizedSetNotStored ==
    [][\A k \in Keys, t \in TTLs :
         (ccalls' = ccalls + 1 /\ cres'.op = "set" /\ Set(k, DataBig, t, MaxCacheCalls)) =>
            /\ calculateSize(DataBig) > maxSize
            /\ ~HasKey(cache', k)]_vars

\* C12: set calls started without awaiting the previous one leave, once all
\* of them have finished, the cache that running them strictly one after
\* the other leaves, and the sizes of its entries add up to at most maxSize.
C12_OverlappingSetsAsSequential ==
    pending = <<>> => (cache = seqCache /\ getCurrentSize(cache) <= maxSize)

(***************************************************************************)
(* Claims about PerformanceOptimizer.                                      *)
(***************************************************************************)
\* C16: optimizeParameters leaves the caller's request object, the options
\* object it refers to, and the optimizer's metrics and settings as they
\* were, in every quality mode.
C16_OptimizeLeavesArgumentAlone ==
    [][(\E t \in Tiers, ca \in ConstAssign : OptimizeParameters(t, ca)) =>
          UNCHANGED <<request, reqOptions, metrics, settings, processingTimes>>]_vars

\* C21: in 'auto' mode optimizeParameters returns without an error, with
\* bitrate 'low' and 4K reduced to 1080p when avgTime > 60, fps capped at 30
\* when the queue length exceeds 5, and quality '720p' with bitrate 'medium'
\* for the free tier whatever the other two signals.
C21_AutoModeReturnsAdjusted ==
    [][\A t \in Tiers, ca \in ConstAssign :
         (settings.quality = "auto" /\ optimized'.done /\ OptimizeParameters(t, ca)) =>
            /\ ~optimized'.threw
            /\ (metrics.avgTime > 60 /\ t # "free") =>
                  /\ reqOptions'.bitrate = "low"
                  /\ reqOptions'.quality = IF reqOptions.quality = "4K" THEN "1080p"
                                           ELSE reqOptions.quality
            /\ metrics.queueLength > 5 => reqOptions'.fps = MinOf(reqOptions.fps, 30)
            /\ t = "free" =>
                  /\ reqOptions'.quality = "720p"
                  /\ reqOptions'.bitrate = "medium"]_vars

\* C23: the history holds at most maxHistorySize samples, namely the most
\* recent min(n, maxHistorySize) of the n durations recorded, in arrival
\* order, and totalProcessed is n.
C23_HistoryKeepsMostRecent ==
    LET n == Len(allTimes)
        kept == Min(n, maxHistorySize)
    IN  /\ Len(processingTimes) <= maxHistorySize
        /\ processingTimes = SubSeq(allTimes, n - kept + 1, n)
        /\ metrics.totalProcessed = n
        /\ metrics.avgTime = calculateAverageTime(SubSeq(allTimes, n - kept + 1, n))

\* the history was full and two more durations have pushed the two oldest out
C23_Witness ==
    /\ Len(allTimes) = maxHistorySize + 2
    /\ Len(processingTimes) = maxHistorySize
    /\ processingTimes[1] = allTimes[3]
    /\ recorded.done

InPercentRange(r) == r.num >= 0 /\ r.num <= 100 * r.den

\* C19: every recordProcessingTime(t, success) call sets successRate to
\* (old successRate * (n - 1) + (100 if success else 0)) / n with n the
\* incremented totalProcessed, on failures as well as on successes, and
\* successRate and errorRate stay within 0..100.
C19_SuccessRateFollowsEveryOutcome ==
    [][pcalls' = pcalls + 1 =>
         LET n == metrics'.totalProcessed
             old == metrics.successRate
             gain == IF recorded'.success THEN 100 ELSE 0
         IN  /\ n = metrics.totalProcessed + 1
             /\ metrics'.successRate = Rat(old.num * (n - 1) + gain * old.den, old.den * n)
             /\ InPercentRange(metrics'.successRate)
             /\ InPercentRange(metrics'.errorRate)]_vars

\* C20: getOptimalBatchSize returns a whole number for every tier and every
\* avgTime: with base 10, 5 or 2 it is floor(0.7 * base) when avgTime > 60,
\* the smaller of base * 1.5 and base + 3 when avgTime < 30, and the base
\* otherwise.
C20_BatchSizeIsWhole ==
    batch.done =>
        LET base == baseSize(batch.userTier)
        IN  /\ batch.size.den = 1
            /\ base = (CASE batch.userTier = "professional" -> 10
                         [] batch.userTier = "premium" -> 5
                         [] OTHER -> 2)
            /\ batch.avgTime > 60 => batch.size = Whole((7 * base) \div 10)
            /\ batch.avgTime < 30 =>
                  batch.size = RatMin(Rat(3 * base, 2), Whole(base + 3))
            /\ (batch.avgTime >= 30 /\ batch.avgTime <= 60) => batch.size = Whole(base)

(***************************************************************************)
(* Claims about generateKey.                                               *)
(***************************************************************************)
\* the prompt without its leading and trailing blanks
RECURSIVE Core(_)
Core(s) ==
    IF s = <<>> THEN s
    ELSE IF s[1] = " " THEN Core(Tail(s))
    ELSE IF s[Len(s)] = " " THEN Core(SubSeq(s, 1, Len(s) - 1))
    ELSE s

SameLetter(c, d) == c = d \/ {c, d} = {"a", "A"}

\* two prompts that differ only in letter case and surrounding whitespace
SamePrompt(p, q) ==
    /\ Len(Core(p)) = Len(Core(q))
    /\ \A i \in 1..Len(Core(p)) : SameLetter(Core(p)[i], Core(q)[i])

\* C7: generateKey gives the same outcome for two prompts that differ only
\* in letter case and in leading or trailing whitespace, with the same
\* options object.
C7_KeyIgnoresCaseAndBlanks ==
    (keyOut.done /\ SamePrompt(keyIn.p1, keyIn.p2)) => keyOut.k1 = keyOut.k2

\* C22: two requests whose lowercased, trimmed prompts differ get different
\* keys, whatever fields the options object has.
C22_DistinctRequestsDistinctKeys ==
    (/\ keyOut.done
     /\ ~keyOut.k1.threw /\ ~keyOut.k2.threw
     /\ trim(toLowerCase(keyIn.p1)) # trim(toLowerCase(keyIn.p2))) =>
        keyOut.k1.key # keyOut.k2.key

C7_Witness ==
    /\ keyOut.done
    /\ keyIn.p1 # keyIn.p2
    /\ SamePrompt(keyIn.p1, keyIn.p2)
    /\ ~keyOut.k1.threw
    /\ keyOut.k1.key # <<>>
    /\ keyOut.k1 = keyOut.k2

====
